---- MODULE Spec2Model ----
(***************************************************************************)
(* Model of the request pipeline of iptuapi (IPTUClient._make_request,     *)
(* IPTUClient._handle_error, RateLimitInfo.from_headers and the exception  *)
(* taxonomy).                                                              *)
(*                                                                         *)
(* Python values are represented as follows:                               *)
(*   - str              a TLA+ string; Python None is PyNone, a header or  *)
(*                      JSON key that is missing is Absent;                *)
(*   - Optional[int]    a sequence: <<>> is None, <<n>> is n;              *)
(*   - Optional[record] a sequence likewise;                               *)
(*   - an exception     a record with the fields of every taxonomy class,  *)
(*                      fields a class does not have being NoField.        *)
(***************************************************************************)
EXTENDS Integers, Sequences, FiniteSets, TLC

VARIABLES
    cfg,              \* ClientConfig with its RetryConfig (client.py:56, 86)
    rate_limit_info,  \* IPTUClient._rate_limit_info (client.py:64)
    last_request_id,  \* IPTUClient._last_request_id (client.py:65)
    pc,               \* position of the running call
    attempt,          \* loop variable of _make_request (client.py:89)
    delay,            \* local delay of _make_request (client.py:87)
    result,           \* how the last call ended: value returned or exception raised
    resp,             \* the HTTP response the current call received, if any
    requests,         \* history: requests sent by the current call
    sleeps,           \* history: durations of the time.sleep calls of the current call
    outcomes,         \* history: which except clause (or "response") ended each attempt
    classified,       \* history: number of _handle_error invocations of the current call
    prev_rl,          \* history: rate_limit_info when the current call started
    prev_rid,         \* history: last_request_id when the current call started
    calls,            \* history: number of calls started on this client
    retryable,        \* what is_retryable() returned for the exception in result, if asked
    serialized,       \* what to_dict() returned for the exception in result, if asked
    caught,           \* the exception bound by "as e" in the running except clause
    threads,          \* concurrent calls: position, response and result of each
    writer            \* history: the call that last assigned each of the two fields

vars == <<cfg, rate_limit_info, last_request_id, pc, attempt, delay, result, resp,
          requests, sleeps, outcomes, classified, prev_rl, prev_rid, calls,
          retryable, serialized, caught, threads, writer>>

-----------------------------------------------------------------------------
(* Bounds of the model *)

MaxRetriesBound == 2
MaxCalls == 2

-----------------------------------------------------------------------------
(* Python values *)

PyNone == "<None>"
Absent == "<absent>"
NoField == "<no-field>"
None == <<>>
Some(v) == <<v>>

Min(a, b) == IF a <= b THEN a ELSE b

\* The literal of client.py:148 and client.py:151.
ErroDesconhecido == "Erro desconhecido"

\* dict.get(key, default) on a parsed JSON object whose keys are record fields.
DictGet(value, default) == IF value = Absent THEN default ELSE value

\* Python's `x or default` for a string-valued x that may be None or empty.
OrElse(value, default) == IF value \in {PyNone, ""} THEN default ELSE value

-----------------------------------------------------------------------------
(* Header values and int() *)

\* Decimal literals and the integers int() gives for them.
IntLiteralValue ==
    [s \in {"0", "7", "42", "60", "100", "1700000000"} |->
        CASE s = "0" -> 0
          [] s = "7" -> 7
          [] s = "42" -> 42
          [] s = "60" -> 60
          [] s = "100" -> 100
          [] s = "1700000000" -> 1700000000]

\* Decimal literals int() accepts whose value datetime.fromtimestamp rejects:
\* a year beyond 9999 is a ValueError, a value beyond the platform's time_t an
\* OverflowError.
YearOutOfRange == {"99999999999999"}
BeyondTimeT == {"1000000000000000000000000000000"}

\* int(s) raises ValueError exactly when s is not a decimal literal.
IsIntLiteral(s) == s \in (DOMAIN IntLiteralValue) \cup YearOutOfRange \cup BeyondTimeT

-----------------------------------------------------------------------------
(* HTTP responses *)

\* response.text / response.json(): kind "object" is a JSON object with the
\* keys that are not Absent, "list" and "string" are JSON values that are not
\* objects, "text" is a body that is not JSON (json() raises a ValueError).
NoKeys == [detail |-> Absent, message |-> Absent, errors |-> Absent,
           resource |-> Absent, required_plan |-> Absent]

Body(kind, text, keys) ==
    [kind |-> kind, text |-> text, detail |-> keys.detail, message |-> keys.message,
     errors |-> keys.errors, resource |-> keys.resource,
     required_plan |-> keys.required_plan]

ObjectKeys ==
    {k \in [detail : {Absent, "D", PyNone}, message : {Absent, "M"},
            errors : {Absent, "E", PyNone}, resource : {Absent, "R"},
            required_plan : {Absent, "P"}] :
        /\ (k.errors = Absent) = (k.resource = Absent)
        /\ (k.errors = Absent) = (k.required_plan = Absent)}

Bodies ==
    {Body("object", "{...}", k) : k \in ObjectKeys}
    \cup {Body("list", "[]", NoKeys), Body("string", "\"s\"", NoKeys),
          Body("text", "oops", NoKeys), Body("text", "", NoKeys)}

NoBody == Body("none", "", NoKeys)

Statuses == {200, 204, 302, 400, 401, 403, 404, 418, 422, 429, 500, 503}

Response(status, body, h) ==
    [status |-> status, body |-> body,
     RetryAfter |-> h.RetryAfter, XRequestID |-> h.XRequestID,
     XRateLimitLimit |-> h.XRateLimitLimit,
     XRateLimitRemaining |-> h.XRateLimitRemaining,
     XRateLimitReset |-> h.XRateLimitReset]

Headers ==
    [RetryAfter : {Absent, "0", "7", "Wed, 21 Oct 2015 07:28:00 GMT"},
     XRequestID : {Absent, "req-1", "req-2"},
     XRateLimitLimit : {Absent, "100", "x"},
     XRateLimitRemaining : {Absent, "42"},
     XRateLimitReset : {Absent, "1700000000", "soon"} \cup YearOutOfRange \cup BeyondTimeT]

NoHeaders == [RetryAfter |-> Absent, XRequestID |-> Absent, XRateLimitLimit |-> Absent,
              XRateLimitRemaining |-> Absent, XRateLimitReset |-> Absent]

NoResponse == Response(0, NoBody, NoHeaders)

ErrorResponses ==
    {Response(st, b, h) : st \in {s \in Statuses : s >= 400}, b \in Bodies, h \in Headers}

-----------------------------------------------------------------------------
(* Exceptions: exceptions.py *)

TaxonomyClasses ==
    {"IPTUAPIError", "AuthenticationError", "ForbiddenError", "NotFoundError",
     "RateLimitError", "ValidationError", "ServerError", "TimeoutError", "NetworkError"}

EmptyDict == "{}"

\* status_code default of ValidationError.__init__.
DefaultValidationStatus == 422

\* retry_after default of RateLimitError.__init__.
DefaultRetryAfter == 60
\* default of headers.get("Retry-After", 60) in _handle_error.
DefaultRetryAfterHeader == 60
\* status_code TimeoutError.__init__ passes to the base class.
TimeoutStatus == 408

\* IPTUAPIError.__init__: the fields every exception of the taxonomy has.
IPTUAPIError(cls, message, status_code, request_id) ==
    [cls |-> cls, message |-> message, status_code |-> status_code,
     request_id |-> request_id, response_data |-> EmptyDict,
     retry_after |-> None, timeout_seconds |-> None,
     required_plan |-> NoField, resource |-> NoField, errors |-> NoField,
     original_error |-> NoField]

AuthenticationError(message, request_id) ==
    IPTUAPIError("AuthenticationError", message, Some(401), request_id)

ForbiddenError(message, required_plan, request_id) ==
    [IPTUAPIError("ForbiddenError", message, Some(403), request_id)
        EXCEPT !.required_plan = required_plan]

NotFoundError(message, resource, request_id) ==
    [IPTUAPIError("NotFoundError", message, Some(404), request_id)
        EXCEPT !.resource = resource]

\* self.retry_after = retry_after or 60: None and 0 are both falsy.
RateLimitError(message, retry_after, request_id) ==
    [IPTUAPIError("RateLimitError", message, Some(429), request_id)
        EXCEPT !.retry_after =
            IF retry_after = None \/ retry_after = Some(0)
            THEN Some(DefaultRetryAfter) ELSE retry_after]

\* The JSON values Python's `or` treats as false: null, [] and {}.
FalsyJson == {PyNone, "[]", EmptyDict}

\* Mutant of ValidationError: the status_code argument is ignored and the
\* default 422 is kept.
ValidationErrorDefaultStatus(message, errors, status_code, request_id) ==
    [IPTUAPIError("ValidationError", message, Some(DefaultValidationStatus), request_id)
        EXCEPT !.errors = IF errors \in FalsyJson THEN EmptyDict ELSE errors]

\* self.errors = errors or {}
ValidationError(message, errors, status_code, request_id) ==
    [IPTUAPIError("ValidationError", message, Some(status_code), request_id)
        EXCEPT !.errors = IF errors \in FalsyJson THEN EmptyDict ELSE errors]

ServerError(message, status_code, request_id) ==
    IPTUAPIError("ServerError", message, Some(status_code), request_id)

TimeoutError(message, timeout_seconds) ==
    [IPTUAPIError("TimeoutError", message, Some(TimeoutStatus), PyNone)
        EXCEPT !.timeout_seconds = timeout_seconds]

NetworkError(message, original_error) ==
    [IPTUAPIError("NetworkError", message, None, PyNone)
        EXCEPT !.original_error = original_error]

\* An exception that is not of the taxonomy (a Python builtin or one of
\* requests.exceptions); message is str(e).
PyExc(cls, text) == IPTUAPIError(cls, text, None, NoField)

NoExc == PyExc("<no-exception>", "")

\* is_retryable: the classes that override the method all return True
\* (exceptions.py:101, 140, 156, 176); the others inherit the base method,
\* which returns False (exceptions.py:24-26).  No field is read.
RetryableOverrides == {"RateLimitError", "ServerError", "TimeoutError", "NetworkError"}

\* Mutant of is_retryable: ServerError lacks its override.
is_retryable_no_server(e) == e.cls \in RetryableOverrides \ {"ServerError"}

is_retryable(e) == IF e.cls \in RetryableOverrides THEN TRUE ELSE FALSE

\* A dict with string keys: the keys it has and the value of each.
NoDict ==
    [keys |-> {},
     val |-> [error |-> NoField, message |-> NoField, status_code |-> None,
              request_id |-> NoField, retryable |-> FALSE, retry_after |-> None,
              required_plan |-> NoField, resource |-> NoField,
              validation_errors |-> NoField, timeout_seconds |-> None]]

\* data[key] = value
DictSet(d, key, value) ==
    [keys |-> d.keys \cup {key}, val |-> [d.val EXCEPT ![key] = value]]

\* IPTUAPIError.to_dict: exceptions.py:28-36.
base_to_dict(e) ==
    DictSet(DictSet(DictSet(DictSet(DictSet(NoDict,
        "error", e.cls),
        "message", e.message),
        "status_code", e.status_code),
        "request_id", e.request_id),
        "retryable", is_retryable(e))

\* Mutant of to_dict: NotFoundError does not override to_dict.
to_dict_no_resource(e) ==
    CASE e.cls = "ForbiddenError" -> DictSet(base_to_dict(e), "required_plan", e.required_plan)
      [] e.cls = "RateLimitError" -> DictSet(base_to_dict(e), "retry_after", e.retry_after)
      [] e.cls = "ValidationError" -> DictSet(base_to_dict(e), "validation_errors", e.errors)
      [] e.cls = "TimeoutError" ->
            DictSet(base_to_dict(e), "timeout_seconds", e.timeout_seconds)
      [] OTHER -> base_to_dict(e)

\* Mutant of to_dict: the overrides build a dict of their own instead of
\* extending super().to_dict().
to_dict_without_super(e) ==
    CASE e.cls = "ForbiddenError" -> DictSet(NoDict, "required_plan", e.required_plan)
      [] e.cls = "NotFoundError" -> DictSet(NoDict, "resource", e.resource)
      [] e.cls = "RateLimitError" -> DictSet(NoDict, "retry_after", e.retry_after)
      [] e.cls = "ValidationError" -> DictSet(NoDict, "validation_errors", e.errors)
      [] e.cls = "TimeoutError" -> DictSet(NoDict, "timeout_seconds", e.timeout_seconds)
      [] OTHER -> base_to_dict(e)

\* to_dict with the overrides of exceptions.py:65-68, 83-86, 104-107,
\* 123-126 and 159-162: each extends super().to_dict() by one key.
to_dict(e) ==
    CASE e.cls = "ForbiddenError" -> DictSet(base_to_dict(e), "required_plan", e.required_plan)
      [] e.cls = "NotFoundError" -> DictSet(base_to_dict(e), "resource", e.resource)
      [] e.cls = "RateLimitError" -> DictSet(base_to_dict(e), "retry_after", e.retry_after)
      [] e.cls = "ValidationError" -> DictSet(base_to_dict(e), "validation_errors", e.errors)
      [] e.cls = "TimeoutError" ->
            DictSet(base_to_dict(e), "timeout_seconds", e.timeout_seconds)
      [] OTHER -> base_to_dict(e)

-----------------------------------------------------------------------------
(* IPTUClient._handle_error: client.py:142-198 *)

\* response.headers.get("X-Request-ID")
RequestIdOf(r) == DictGet(r.XRequestID, PyNone)

\* Mutant of ParseErrorBody: a JSON object with neither detail nor message
\* gives the raw response text.
ParseErrorBodyRawText(r) ==
    CASE r.body.kind = "object" ->
            [raised |-> PyNone,
             data |-> [k \in DOMAIN NoKeys |-> r.body[k]],
             message |-> DictGet(r.body.detail,
                                 DictGet(r.body.message,
                                         OrElse(r.body.text, ErroDesconhecido)))]
      [] r.body.kind \in {"list", "string"} ->
            [raised |-> "AttributeError", data |-> NoKeys, message |-> PyNone]
      [] OTHER ->
            [raised |-> PyNone, data |-> NoKeys,
             message |-> OrElse(r.body.text, ErroDesconhecido)]

\* client.py:146-151.  raised is the class of the exception that leaves the
\* try statement (only ValueError is caught), or PyNone.
ParseErrorBody(r) ==
    CASE r.body.kind = "object" ->
            [raised |-> PyNone,
             data |-> [k \in DOMAIN NoKeys |-> r.body[k]],
             message |-> DictGet(r.body.detail, DictGet(r.body.message, ErroDesconhecido))]
      [] r.body.kind \in {"list", "string"} ->
            [raised |-> "AttributeError", data |-> NoKeys, message |-> PyNone]
      [] OTHER ->
            [raised |-> PyNone, data |-> NoKeys,
             message |-> OrElse(r.body.text, ErroDesconhecido)]

\* int(response.headers.get("Retry-After", 60)), client.py:171.
RetryAfterOf(r) ==
    IF r.RetryAfter = Absent THEN [raised |-> PyNone, value |-> Some(DefaultRetryAfterHeader)]
    ELSE IF r.RetryAfter \in DOMAIN IntLiteralValue
         THEN [raised |-> PyNone, value |-> Some(IntLiteralValue[r.RetryAfter])]
         ELSE [raised |-> "ValueError", value |-> None]

\* client.py:153-198: the exception the status selects.
ClassifyStatus(r, data, message, request_id) ==
    IF r.status = 401 THEN AuthenticationError(message, request_id)
    ELSE IF r.status = 403
         THEN ForbiddenError(message, DictGet(data.required_plan, PyNone), request_id)
    ELSE IF r.status = 404
         THEN NotFoundError(message, DictGet(data.resource, PyNone), request_id)
    ELSE IF r.status = 429
         THEN IF RetryAfterOf(r).raised # PyNone
              THEN PyExc(RetryAfterOf(r).raised, "invalid literal for int() with base 10")
              ELSE RateLimitError(message, RetryAfterOf(r).value, request_id)
    ELSE IF r.status \in {400, 422}
         THEN ValidationError(message, DictGet(data.errors, EmptyDict), r.status, request_id)
    ELSE IF r.status >= 500 THEN ServerError(message, r.status, request_id)
    ELSE IPTUAPIError("IPTUAPIError", message, Some(r.status), request_id)

\* _handle_error never returns: the value is the exception it raises.
handle_error(r) ==
    LET parsed == ParseErrorBody(r) IN
    IF parsed.raised # PyNone
    THEN PyExc(parsed.raised, "object has no attribute 'get'")
    ELSE ClassifyStatus(r, parsed.data, parsed.message, RequestIdOf(r))


-----------------------------------------------------------------------------
(* RateLimitInfo.from_headers: models.py:18-30 *)

\* int(headers.get(name, 0)): a missing header counts as 0.
HeaderIntRaises(v) == v # Absent /\ ~IsIntLiteral(v)
HeaderIntValue(v) == IF v = Absent THEN 0 ELSE IntLiteralValue[v]

\* The three conversions run in the order limit, remaining, reset; ValueError
\* and TypeError give None, any other exception leaves from_headers.
from_headers(r) ==
    IF HeaderIntRaises(r.XRateLimitLimit) THEN [raised |-> PyNone, value |-> None]
    ELSE IF HeaderIntRaises(r.XRateLimitRemaining) THEN [raised |-> PyNone, value |-> None]
    ELSE IF HeaderIntRaises(r.XRateLimitReset) THEN [raised |-> PyNone, value |-> None]
    ELSE IF r.XRateLimitReset \in YearOutOfRange THEN [raised |-> PyNone, value |-> None]
    ELSE IF r.XRateLimitReset \in BeyondTimeT
         THEN [raised |-> "OverflowError", value |-> None]
    ELSE [raised |-> PyNone,
          value |-> Some([limit |-> HeaderIntValue(r.XRateLimitLimit),
                          remaining |-> HeaderIntValue(r.XRateLimitRemaining),
                          reset_at |-> HeaderIntValue(r.XRateLimitReset)])]

-----------------------------------------------------------------------------
(* Configuration: config.py *)

\* RetryConfig and ClientConfig.timeout; delays and the timeout in seconds.
\* The profiles satisfy 0 <= initial_delay <= max_delay, backoff_factor >= 1.
DelayProfiles ==
    {[initial_delay |-> 1, backoff_factor |-> 2, max_delay |-> 3, timeout |-> 30],
     [initial_delay |-> 2, backoff_factor |-> 3, max_delay |-> 4, timeout |-> 5]}

Config(max_retries, p) ==
    [max_retries |-> max_retries, initial_delay |-> p.initial_delay,
     backoff_factor |-> p.backoff_factor, max_delay |-> p.max_delay,
     timeout |-> p.timeout]

Configs == {Config(m, p) : m \in 0..MaxRetriesBound, p \in DelayProfiles}

\* RetryConfig is a plain dataclass: __init__ stores whatever it is given.
\* These profiles are constructible although initial_delay > max_delay,
\* backoff_factor < 1 or initial_delay < 0.
UncheckedDelayProfiles ==
    {[initial_delay |-> 5, backoff_factor |-> 2, max_delay |-> 3, timeout |-> 30],
     [initial_delay |-> 2, backoff_factor |-> 0, max_delay |-> 4, timeout |-> 30],
     [initial_delay |-> -1, backoff_factor |-> 2, max_delay |-> 3, timeout |-> 30]}

\* Every RetryConfig the constructor accepts, a negative max_retries included.
AnyConfigs ==
    {Config(m, p) : m \in (-1)..MaxRetriesBound,
                    p \in DelayProfiles \cup UncheckedDelayProfiles}

-----------------------------------------------------------------------------
(* IPTUClient._make_request: client.py:77-140 *)

NoResult == [kind |-> "none", payload |-> NoBody, exc |-> NoExc]
Return(payload) == [kind |-> "return", payload |-> payload, exc |-> NoExc]
Raise(e) == [kind |-> "raise", payload |-> NoBody, exc |-> e]

\* The responses the transport hands to _make_request.
ExecBodies ==
    {Body("object", "{...}", [NoKeys EXCEPT !.detail = "D"]),
     Body("object", "{...}", NoKeys),
     Body("object", "{...}", [detail |-> Absent, message |-> "M", errors |-> "E",
                              resource |-> "R", required_plan |-> "P"]),
     Body("list", "[]", NoKeys), Body("text", "oops", NoKeys), Body("text", "", NoKeys)}

ExecHeaders ==
    {h \in Headers :
        /\ h.RetryAfter \in {Absent, "0", "Wed, 21 Oct 2015 07:28:00 GMT"}
        /\ h.XRequestID \in {Absent, "req-1"}
        /\ <<h.XRateLimitLimit, h.XRateLimitRemaining, h.XRateLimitReset>> \in
              {<<Absent, Absent, Absent>>, <<"100", "42", "1700000000">>,
               <<"x", "42", "1000000000000000000000000000000">>,
               <<"100", "42", "1000000000000000000000000000000">>}}

ExecResponses ==
    {Response(st, b, h) : st \in Statuses, b \in ExecBodies, h \in ExecHeaders}

\* Exceptions session.request raises: requests.exceptions classes, with the
\* text str(e) gives.
TimeoutClasses == {"Timeout", "ReadTimeout", "ConnectTimeout"}
ConnectionErrorClasses == {"ConnectionError", "ConnectTimeout", "SSLError", "ProxyError"}

TransportExceptions ==
    {PyExc(c, t) : c \in {"ReadTimeout", "ConnectTimeout", "ConnectionError",
                          "TooManyRedirects"},
                   t \in {"e1", "e2"}}

\* response.json() of client.py:109.
ResponseJson(r) ==
    IF r.body.kind = "text"
    THEN Raise(PyExc("JSONDecodeError", "Expecting value"))
    ELSE Return(r.body)

\* client.py:99-109: what the try body does once session.request returned r.
\* rl and rid are the two client fields after it, out is how it ends.
ProcessResponse(r, rl, rid) ==
    IF from_headers(r).raised # PyNone
    THEN [rl |-> rl, rid |-> rid, classified |-> 0,
          out |-> Raise(PyExc(from_headers(r).raised, "timestamp out of range"))]
    ELSE IF r.status >= 400
    THEN [rl |-> from_headers(r).value, rid |-> RequestIdOf(r), classified |-> 1,
          out |-> Raise(handle_error(r))]
    ELSE [rl |-> from_headers(r).value, rid |-> RequestIdOf(r), classified |-> 0,
          out |-> ResponseJson(r)]

\* The except clause of client.py:111-138 that catches e: the first that matches.
ExceptClause(e) ==
    IF e.cls \in TimeoutClasses THEN "Timeout"
    ELSE IF e.cls \in ConnectionErrorClasses THEN "ConnectionError"
    ELSE IF e.cls \in TaxonomyClasses THEN "IPTUAPIError"
    ELSE "Exception"

\* Mutant of Retries: only the timeout clause continues the loop.
RetriesTimeoutOnly(clause, att, c) == clause = "Timeout" /\ att < c.max_retries

\* Mutant of Retries: the comparison with max_retries is off by one.
RetriesOneMore(clause, att, c) ==
    clause \in {"Timeout", "ConnectionError"} /\ att <= c.max_retries

\* Whether the clause sleeps and continues the loop (client.py:112, 122).
Retries(clause, att, c) == clause \in {"Timeout", "ConnectionError"} /\ att < c.max_retries

\* Mutant of ClauseRaises: the last clause lets the exception through unwrapped.
ClauseRaisesUnwrapped(clause, e, c) ==
    CASE clause = "Timeout" ->
            TimeoutError("Timeout apos " \o ToString(c.timeout) \o "s", Some(c.timeout))
      [] clause = "ConnectionError" ->
            NetworkError("Erro de conexao: " \o e.message, e.cls \o ": " \o e.message)
      [] OTHER -> e

\* Mutant of ClauseRaises: the timeout clause raises NetworkError as well.
ClauseRaisesNetworkOnly(clause, e, c) ==
    CASE clause \in {"Timeout", "ConnectionError"} ->
            NetworkError("Erro de conexao: " \o e.message, e.cls \o ": " \o e.message)
      [] clause = "IPTUAPIError" -> e
      [] OTHER ->
            NetworkError("Erro inesperado: " \o e.message, e.cls \o ": " \o e.message)

\* The exception the clause raises when it does not continue.
ClauseRaises(clause, e, c) ==
    CASE clause = "Timeout" ->
            TimeoutError("Timeout apos " \o ToString(c.timeout) \o "s", Some(c.timeout))
      [] clause = "ConnectionError" ->
            NetworkError("Erro de conexao: " \o e.message, e.cls \o ": " \o e.message)
      [] clause = "IPTUAPIError" -> e
      [] OTHER ->
            NetworkError("Erro inesperado: " \o e.message, e.cls \o ": " \o e.message)

\* The tag of an attempt in the history: "response" when the try body returned.
OutcomeTag(out) == IF out.kind = "return" THEN "response:return"
                   ELSE ExceptClause(out.exc)

\* Mutant of NextDelay: the delay grows without the max_delay cap.
NextDelayUncapped(d, c) == d * c.backoff_factor

\* min(delay * retry_config.backoff_factor, retry_config.max_delay)
NextDelay(d, c) == Min(d * c.backoff_factor, c.max_delay)

\* No concurrent call is running and neither field has been assigned.
NoThreads == <<>>
NoWriter == [rl |-> 0, rid |-> 0]

Init ==
    /\ cfg \in Configs
    /\ rate_limit_info = None
    /\ last_request_id = PyNone
    /\ pc = "idle"
    /\ attempt = 0
    /\ delay = cfg.initial_delay
    /\ result = NoResult
    /\ resp = NoResponse
    /\ requests = 0
    /\ sleeps = <<>>
    /\ outcomes = <<>>
    /\ classified = 0
    /\ prev_rl = None
    /\ prev_rid = PyNone
    /\ calls = 0
    /\ retryable = None
    /\ serialized = NoDict
    /\ caught = NoExc
    /\ threads = NoThreads
    /\ writer = NoWriter

\* A caller invokes _make_request: client.py:85-89.  An empty range leaves the
\* loop at once and reaches client.py:140.
Call ==
    /\ pc \in {"idle", "done"}
    /\ calls < MaxCalls
    /\ calls' = calls + 1
    /\ attempt' = 0
    /\ delay' = cfg.initial_delay
    /\ resp' = NoResponse
    /\ requests' = 0
    /\ sleeps' = <<>>
    /\ outcomes' = <<>>
    /\ classified' = 0
    /\ prev_rl' = rate_limit_info
    /\ prev_rid' = last_request_id
    /\ caught' = NoExc
    /\ IF cfg.max_retries + 1 > 0
       THEN pc' = "request" /\ result' = NoResult
       ELSE /\ pc' = "done"
            /\ result' = Raise(NetworkError("Maximo de tentativas excedido", PyNone))
    /\ UNCHANGED <<cfg, rate_limit_info, last_request_id, retryable, serialized>>
    /\ UNCHANGED <<threads, writer>>

\* How one attempt ends once the try body ended as out: client.py:109-138.
EndAttempt(out) ==
    /\ requests' = requests + 1
    /\ outcomes' = Append(outcomes, OutcomeTag(out))
    /\ caught' = IF out.kind = "raise" THEN out.exc ELSE NoExc
    /\ IF out.kind = "return"
       THEN pc' = "done" /\ result' = out
       ELSE IF Retries(ExceptClause(out.exc), attempt, cfg)
            THEN pc' = "sleep" /\ result' = NoResult
            ELSE /\ pc' = "done"
                 /\ result' = Raise(ClauseRaises(ExceptClause(out.exc), out.exc, cfg))
    /\ UNCHANGED <<cfg, attempt, delay, sleeps, prev_rl, prev_rid, calls, retryable,
                   serialized>>
    /\ UNCHANGED <<threads, writer>>

\* session.request raises: client.py:91-97.
RequestRaises ==
    /\ pc = "request"
    /\ \E e \in TransportExceptions : EndAttempt(Raise(e))
    /\ UNCHANGED <<rate_limit_info, last_request_id, resp, classified>>

\* session.request returns a response: client.py:91-109.
ResponseReceived ==
    /\ pc = "request"
    /\ \E r \in ExecResponses :
        LET p == ProcessResponse(r, rate_limit_info, last_request_id) IN
        /\ resp' = r
        /\ rate_limit_info' = p.rl
        /\ last_request_id' = p.rid
        /\ classified' = classified + p.classified
        /\ EndAttempt(p.out)

\* time.sleep(delay) returns, the delay grows and the loop continues:
\* client.py:113-115 and 123-125.  A negative delay makes time.sleep raise
\* ValueError inside the except clause, which no clause catches.
Sleep ==
    /\ pc = "sleep"
    /\ IF delay < 0
       THEN /\ pc' = "done"
            /\ result' = Raise(PyExc("ValueError", "sleep length must be non-negative"))
            /\ UNCHANGED <<sleeps, delay, attempt, caught>>
       ELSE /\ sleeps' = Append(sleeps, delay)
            /\ caught' = NoExc
            /\ delay' = NextDelay(delay, cfg)
            /\ attempt' = attempt + 1
            /\ pc' = "request"
            /\ UNCHANGED result
    /\ UNCHANGED <<cfg, rate_limit_info, last_request_id, resp, requests, outcomes,
                   classified, prev_rl, prev_rid, calls, retryable, serialized>>
    /\ UNCHANGED <<threads, writer>>

Next == Call \/ RequestRaises \/ ResponseReceived \/ Sleep

Spec == Init /\ [][Next]_vars

\* The executor when session.request and time.sleep are blocking calls that
\* return or raise in the end: an attempt that was started completes, and so
\* does a sleep.  Nothing obliges the caller to start another call.
AttemptCompletes == RequestRaises \/ ResponseReceived

SpecFair == Init /\ [][Next]_vars /\ WF_vars(AttemptCompletes) /\ WF_vars(Sleep)

\* The client built with any RetryConfig the dataclass accepts.
InitAnyConfig ==
    /\ cfg \in AnyConfigs
    /\ rate_limit_info = None
    /\ last_request_id = PyNone
    /\ pc = "idle"
    /\ attempt = 0
    /\ delay = cfg.initial_delay
    /\ result = NoResult
    /\ resp = NoResponse
    /\ requests = 0
    /\ sleeps = <<>>
    /\ outcomes = <<>>
    /\ classified = 0
    /\ prev_rl = None
    /\ prev_rid = PyNone
    /\ calls = 0
    /\ retryable = None
    /\ serialized = NoDict
    /\ caught = NoExc
    /\ threads = NoThreads
    /\ writer = NoWriter

SpecAnyConfig == InitAnyConfig /\ [][Next]_vars

-----------------------------------------------------------------------------
(* The classifier on its own: _handle_error applied to one response with   *)
(* status >= 400, the only responses _make_request hands to it.            *)

InitClassify ==
    /\ cfg = Config(0, CHOOSE p \in DelayProfiles : p.timeout = 30)
    /\ rate_limit_info = None
    /\ last_request_id = PyNone
    /\ pc = "classify"
    /\ attempt = 0
    /\ delay = cfg.initial_delay
    /\ result = NoResult
    /\ resp \in ErrorResponses
    /\ requests = 0
    /\ sleeps = <<>>
    /\ outcomes = <<>>
    /\ classified = 0
    /\ prev_rl = None
    /\ prev_rid = PyNone
    /\ calls = 0
    /\ retryable = None
    /\ serialized = NoDict
    /\ caught = NoExc
    /\ threads = NoThreads
    /\ writer = NoWriter

Classify ==
    /\ pc = "classify"
    /\ pc' = "classified"
    /\ result' = Raise(handle_error(resp))
    /\ classified' = classified + 1
    /\ UNCHANGED <<cfg, rate_limit_info, last_request_id, attempt, delay, resp, requests,
                   sleeps, outcomes, prev_rl, prev_rid, calls, retryable, serialized,
                   caught>>
    /\ UNCHANGED <<threads, writer>>

\* error.to_dict() on an error of the taxonomy.
ToDict ==
    /\ pc \in {"asked", "classified"}
    /\ result.kind = "raise"
    /\ result.exc.cls \in TaxonomyClasses
    /\ pc' = "serialized"
    /\ serialized' = to_dict(result.exc)
    /\ UNCHANGED <<cfg, rate_limit_info, last_request_id, attempt, delay, result, resp,
                   requests, sleeps, outcomes, classified, prev_rl, prev_rid, calls,
                   retryable, caught>>
    /\ UNCHANGED <<threads, writer>>

NextClassify == Classify \/ ToDict

SpecClassify == InitClassify /\ [][NextClassify]_vars

-----------------------------------------------------------------------------
(* The taxonomy on its own: an exception built by one of the constructors  *)
(* of exceptions.py is asked is_retryable() and then to_dict().            *)

ConstructedErrors ==
    LET Msg == {"m1", "m2"}
        Rid == {PyNone, "req-1"}
    IN  {IPTUAPIError("IPTUAPIError", m, st, rid) :
            m \in Msg, st \in {None, Some(418), Some(429), Some(500)}, rid \in Rid}
        \cup {AuthenticationError(m, rid) : m \in Msg, rid \in Rid}
        \cup {ForbiddenError(m, plan, rid) : m \in Msg, plan \in {PyNone, "P"}, rid \in Rid}
        \cup {NotFoundError(m, res, rid) : m \in Msg, res \in {PyNone, "R"}, rid \in Rid}
        \cup {RateLimitError(m, ra, rid) :
                m \in Msg, ra \in {None, Some(0), Some(7)}, rid \in Rid}
        \cup {ValidationError(m, errs, st, rid) :
                m \in Msg, errs \in {PyNone, "E"}, st \in {400, 422}, rid \in Rid}
        \cup {ServerError(m, st, rid) : m \in Msg, st \in {500, 503}, rid \in Rid}
        \cup {TimeoutError(m, ts) : m \in Msg, ts \in {None, Some(5), Some(30)}}
        \cup {NetworkError(m, orig) : m \in Msg, orig \in {PyNone, "ConnectionError: e1"}}

InitTaxonomy ==
    /\ cfg = Config(0, CHOOSE p \in DelayProfiles : p.timeout = 30)
    /\ rate_limit_info = None
    /\ last_request_id = PyNone
    /\ pc = "constructed"
    /\ attempt = 0
    /\ delay = cfg.initial_delay
    /\ result \in {Raise(e) : e \in ConstructedErrors}
    /\ resp = NoResponse
    /\ requests = 0
    /\ sleeps = <<>>
    /\ outcomes = <<>>
    /\ classified = 0
    /\ prev_rl = None
    /\ prev_rid = PyNone
    /\ calls = 0
    /\ retryable = None
    /\ serialized = NoDict
    /\ caught = NoExc
    /\ threads = NoThreads
    /\ writer = NoWriter

\* error.is_retryable()
AskRetryable ==
    /\ pc = "constructed"
    /\ pc' = "asked"
    /\ retryable' = Some(is_retryable(result.exc))
    /\ UNCHANGED <<cfg, rate_limit_info, last_request_id, attempt, delay, result, resp,
                   requests, sleeps, outcomes, classified, prev_rl, prev_rid, calls,
                   serialized, caught>>
    /\ UNCHANGED <<threads, writer>>

NextTaxonomy == AskRetryable \/ ToDict

SpecTaxonomy == InitTaxonomy /\ [][NextTaxonomy]_vars

-----------------------------------------------------------------------------
(* Several calls running at once on one client.  Each call is a thread in  *)
(* _make_request; the two assignments of client.py:100-103 are separate    *)
(* steps, each an atomic attribute store, and the client takes no lock.    *)

Threads == 1..MaxCalls

\* The responses the concurrent calls receive.
ConcResponses ==
    {r \in ExecResponses :
        /\ r.status \in {200, 404}
        /\ r.body = Body("object", "{...}", [NoKeys EXCEPT !.detail = "D"])
        /\ r.RetryAfter = Absent
        /\ r.XRateLimitLimit # "x"}

Thread(tpc, r, res) == [pc |-> tpc, resp |-> r, result |-> res]

\* Mutant of StoreRateLimit: the assignment keeps a value that is already set.
StoreRateLimitIfUnset(old, new) == IF old = None THEN new ELSE old

\* self._rate_limit_info = <new>
StoreRateLimit(old, new) == new

\* Mutant of StoreRequestId: a response without the header keeps the old id.
StoreRequestIdIfPresent(old, new) == IF new = PyNone THEN old ELSE new

\* self._last_request_id = <new>
StoreRequestId(old, new) == new

\* The exception that leaves _make_request when the try body raised e.
Surfaced(e) == ClauseRaises(ExceptClause(e), e, cfg)

InitConcurrent ==
    /\ cfg = Config(0, CHOOSE p \in DelayProfiles : p.timeout = 30)
    /\ rate_limit_info = None
    /\ last_request_id = PyNone
    /\ pc = "concurrent"
    /\ attempt = 0
    /\ delay = cfg.initial_delay
    /\ result = NoResult
    /\ resp = NoResponse
    /\ requests = 0
    /\ sleeps = <<>>
    /\ outcomes = <<>>
    /\ classified = 0
    /\ prev_rl = None
    /\ prev_rid = PyNone
    /\ calls = 0
    /\ retryable = None
    /\ serialized = NoDict
    /\ caught = NoExc
    /\ threads = [t \in Threads |-> Thread("request", NoResponse, NoResult)]
    /\ writer = NoWriter

\* session.request returns in one of the calls: client.py:91-97.
Receive ==
    \E t \in Threads, r \in ConcResponses :
        /\ threads[t].pc = "request"
        /\ threads' = [threads EXCEPT ![t] = Thread("line100", r, NoResult)]
        /\ UNCHANGED <<rate_limit_info, last_request_id, writer>>
        /\ UNCHANGED <<cfg, pc, attempt, delay, result, resp, requests, sleeps, outcomes,
                       classified, prev_rl, prev_rid, calls, retryable, serialized, caught>>

\* session.request raises in one of the calls, which has no retry left.
TransportFails ==
    \E t \in Threads, e \in {x \in TransportExceptions : x.message = "e1"} :
        /\ threads[t].pc = "request"
        /\ threads' = [threads EXCEPT ![t] = Thread("done", NoResponse, Raise(Surfaced(e)))]
        /\ UNCHANGED <<rate_limit_info, last_request_id, writer>>
        /\ UNCHANGED <<cfg, pc, attempt, delay, result, resp, requests, sleeps, outcomes,
                       classified, prev_rl, prev_rid, calls, retryable, serialized, caught>>

\* client.py:100-102: from_headers runs, then the attribute is stored; an
\* exception of from_headers leaves the try body before the store.
WriteRateLimit ==
    \E t \in Threads :
        LET r == threads[t].resp
            fh == from_headers(r)
        IN  /\ threads[t].pc = "line100"
            /\ IF fh.raised # PyNone
               THEN /\ threads' = [threads EXCEPT ![t] =
                          Thread("done", r,
                                 Raise(Surfaced(PyExc(fh.raised, "timestamp out of range"))))]
                    /\ UNCHANGED <<rate_limit_info, writer>>
               ELSE /\ rate_limit_info' = StoreRateLimit(rate_limit_info, fh.value)
                    /\ writer' = [writer EXCEPT !.rl = t]
                    /\ threads' = [threads EXCEPT ![t] = Thread("line103", r, NoResult)]
            /\ UNCHANGED last_request_id
            /\ UNCHANGED <<cfg, pc, attempt, delay, result, resp, requests, sleeps, outcomes,
                           classified, prev_rl, prev_rid, calls, retryable, serialized, caught>>

\* client.py:103-138: the second store, then the rest of the attempt, which
\* reads and writes nothing shared.
WriteRequestId ==
    \E t \in Threads :
        LET r == threads[t].resp
            out == ProcessResponse(r, rate_limit_info, last_request_id).out
        IN  /\ threads[t].pc = "line103"
            /\ last_request_id' = StoreRequestId(last_request_id, RequestIdOf(r))
            /\ writer' = [writer EXCEPT !.rid = t]
            /\ threads' = [threads EXCEPT ![t] =
                  Thread("done", r,
                         IF out.kind = "raise" THEN Raise(Surfaced(out.exc)) ELSE out)]
            /\ UNCHANGED rate_limit_info
            /\ UNCHANGED <<cfg, pc, attempt, delay, result, resp, requests, sleeps, outcomes,
                           classified, prev_rl, prev_rid, calls, retryable, serialized, caught>>

NextConcurrent == Receive \/ TransportFails \/ WriteRateLimit \/ WriteRequestId

SpecConcurrent == InitConcurrent /\ [][NextConcurrent]_vars

-----------------------------------------------------------------------------
(* Properties *)

AllTimeouts == \A i \in 1..Len(outcomes) : outcomes[i] = "Timeout"

\* d_0 = initial_delay, d_(k+1) = min(d_k * backoff_factor, max_delay).
RECURSIVE ExpectedDelay(_, _)
ExpectedDelay(k, c) ==
    IF k = 0 THEN c.initial_delay
    ELSE Min(ExpectedDelay(k - 1, c) * c.backoff_factor, c.max_delay)

\* C1: while every attempt of a call ends in a transport timeout, the k-th
\* sleep lasts d_(k-1) and a sleep only follows an attempt that is not the
\* last; when the call has ended it has sent max_retries + 1 requests, slept
\* max_retries times and raised TimeoutError with timeout_seconds = timeout.
C1_TimeoutsExhaustRetries ==
    AllTimeouts =>
        /\ requests <= cfg.max_retries + 1
        /\ \A k \in 1..Len(sleeps) : sleeps[k] = ExpectedDelay(k - 1, cfg)
        /\ pc = "request" => Len(sleeps) = requests
        /\ pc = "sleep" => Len(sleeps) = requests - 1 /\ requests <= cfg.max_retries
        /\ pc = "done" =>
              /\ requests = cfg.max_retries + 1
              /\ Len(sleeps) = cfg.max_retries
              /\ result.kind = "raise"
              /\ result.exc.cls = "TimeoutError"
              /\ result.exc.timeout_seconds = Some(cfg.timeout)

\* A call whose three attempts all timed out, the second sleep at the cap.
C1_Witness ==
    /\ pc = "done"
    /\ AllTimeouts
    /\ requests = 3
    /\ sleeps = <<2, 4>>
    /\ result.exc.cls = "TimeoutError"

\* C2 (as claimed, for JSON bodies): after a timeout on the first attempt and
\* a response with status < 400 on the second, the call returns the parsed
\* body and rate_limit_info is the value from_headers derives from the
\* response's headers.
C2_TimeoutThenSuccess ==
    (/\ pc = "done"
     /\ outcomes # <<>>
     /\ outcomes[1] = "Timeout"
     /\ Len(outcomes) = 2
     /\ resp.status \in 1..399
     /\ resp.body.kind # "text")
    => /\ result = Return(resp.body)
       /\ from_headers(resp).raised = PyNone
       /\ rate_limit_info = from_headers(resp).value

\* C3 (as claimed, for rate-limit headers from_headers accepts): a response
\* with status >= 400 ends the call at once, after exactly one run of the
\* classifier, and the caller gets the error the classifier built, an error
\* of the taxonomy.
C3_ErrorResponseNotRetried ==
    /\ resp # NoResponse => pc \in {"done", "classify", "classified"}
    /\ (pc = "done" /\ resp.status >= 400 /\ from_headers(resp).raised = PyNone) =>
          /\ classified = 1
          /\ Len(sleeps) = requests - 1
          /\ result = Raise(handle_error(resp))
          /\ result.exc.cls \in TaxonomyClasses

\* C4: a call that has ended either returned the parsed JSON body of a
\* response with status < 400 or raised one exception of the taxonomy; a call
\* that has not ended has no result.
C4_PayloadOrTaxonomyError ==
    /\ pc = "done" =>
          \/ /\ result.kind = "return"
             /\ resp.status \in 1..399
             /\ resp.body.kind # "text"
             /\ result.payload = resp.body
          \/ /\ result.kind = "raise"
             /\ result.exc.cls \in TaxonomyClasses
    /\ pc \in {"request", "sleep"} => result.kind = "none"

\* The classifier crashed on a JSON list and the caller got a NetworkError.
C4_Witness ==
    /\ pc = "done"
    /\ resp.status >= 400
    /\ resp.body.kind = "list"
    /\ result.kind = "raise"
    /\ result.exc.cls = "NetworkError"

\* The mapping table of the claim.
TableVariant(status) ==
    CASE status = 401 -> "AuthenticationError"
      [] status = 403 -> "ForbiddenError"
      [] status = 404 -> "NotFoundError"
      [] status = 429 -> "RateLimitError"
      [] status \in {400, 422} -> "ValidationError"
      [] status >= 500 -> "ServerError"
      [] OTHER -> "IPTUAPIError"

\* C5 (as claimed): for a response with status >= 400 the classifier raises
\* the variant of the table, carrying the response's status.
C5_StatusMapping ==
    pc = "classified" =>
        /\ result.exc.cls = TableVariant(resp.status)
        /\ result.exc.status_code = Some(resp.status)

\* C6 (as claimed): the RateLimitError of a 429 response whose Retry-After
\* is the integer literal n has retry_after = n.
C6_RetryAfterFromHeader ==
    (/\ pc = "classified"
     /\ resp.status = 429
     /\ resp.RetryAfter \in DOMAIN IntLiteralValue
     /\ result.exc.cls = "RateLimitError")
    => result.exc.retry_after = Some(IntLiteralValue[resp.RetryAfter])

\* C7 (as claimed, for bodies and rate-limit headers the pipeline accepts): a
\* call that gets a 429 response whose Retry-After is missing or is no
\* integer literal raises RateLimitError with retry_after = 60.
C7_RetryAfterDefault ==
    (/\ pc = "done"
     /\ resp.status = 429
     /\ resp.RetryAfter = Absent \/ ~IsIntLiteral(resp.RetryAfter)
     /\ resp.body.kind \in {"object", "text"}
     /\ from_headers(resp).raised = PyNone)
    => /\ result.kind = "raise"
       /\ result.exc.cls = "RateLimitError"
       /\ result.exc.retry_after = Some(60)

\* C8 (as claimed): once a call received a response, rate_limit_info and
\* last_request_id are the values derived from that response's headers; a
\* call that received none has left both as they were when it started.
C8_FieldsFollowResponse ==
    /\ (pc = "done" /\ resp # NoResponse) =>
          /\ from_headers(resp).raised = PyNone
          /\ rate_limit_info = from_headers(resp).value
          /\ last_request_id = RequestIdOf(resp)
    /\ (pc \in {"request", "sleep", "done"} /\ resp = NoResponse) =>
          /\ rate_limit_info = prev_rl
          /\ last_request_id = prev_rid

\* The message order of the claim: detail, else message, else the raw text,
\* else the literal.
ClaimedMessage(r) ==
    IF r.body.detail # Absent THEN r.body.detail
    ELSE IF r.body.message # Absent THEN r.body.message
    ELSE IF r.body.text # "" THEN r.body.text
    ELSE ErroDesconhecido

\* The message order of the code: for a JSON object detail, else message,
\* else the literal; for a body that is not JSON the raw text, else the literal.
AmendedMessage(r) ==
    IF r.body.kind = "object"
    THEN IF r.body.detail # Absent THEN r.body.detail
         ELSE IF r.body.message # Absent THEN r.body.message
         ELSE ErroDesconhecido
    ELSE IF r.body.text # "" THEN r.body.text ELSE ErroDesconhecido

\* C9 (as claimed): the message of every classified error follows the order
\* detail, message, raw text, literal.
C9_ClaimedMessageOrder ==
    (pc = "classified" /\ result.exc.cls \in TaxonomyClasses)
    => result.exc.message = ClaimedMessage(resp)

\* C9 (amended): the message of every classified error is, for a JSON object
\* body, the value of detail if that key is present, else the value of
\* message if present, else the literal; for a body that is not JSON, the raw
\* text if it is not empty, else the literal.
C9_MessageOrder ==
    (pc = "classified" /\ result.exc.cls \in TaxonomyClasses)
    => result.exc.message = AmendedMessage(resp)

\* A classified error for a JSON object with neither key: the literal, not
\* the raw text.
C9_Witness ==
    /\ pc = "classified"
    /\ result.exc.cls = "NotFoundError"
    /\ resp.body.kind = "object"
    /\ resp.body.detail = Absent
    /\ resp.body.message = Absent
    /\ resp.body.text # ""
    /\ result.exc.message = ErroDesconhecido

\* C10 (as claimed): whatever the body, the classifier raises an error of the
\* taxonomy; for status 500 and a body that is not JSON it is a ServerError
\* whose message is the raw text, or the literal for an empty text.
C10_ClassifierTotal ==
    pc = "classified" =>
        /\ result.exc.cls \in TaxonomyClasses
        /\ (resp.status = 500 /\ resp.body.kind = "text") =>
              /\ result.exc.cls = "ServerError"
              /\ result.exc.message = OrElse(resp.body.text, ErroDesconhecido)
              /\ ParseErrorBody(resp).data = NoKeys

\* C11: is_retryable() is true for RateLimitError, ServerError, TimeoutError
\* and NetworkError and false for the five other classes, whatever the
\* fields the constructor set.
C11_RetryableKinds ==
    retryable # None =>
        /\ result.exc.cls \in {"RateLimitError", "ServerError", "TimeoutError",
                               "NetworkError"} => retryable = Some(TRUE)
        /\ result.exc.cls \in {"AuthenticationError", "ForbiddenError", "NotFoundError",
                               "ValidationError", "IPTUAPIError"} => retryable = Some(FALSE)
        /\ result.exc.cls \in TaxonomyClasses

\* A generic IPTUAPIError that carries status 500 is still not retryable.
C11_Witness ==
    /\ pc = "asked"
    /\ result.exc.cls = "IPTUAPIError"
    /\ result.exc.status_code = Some(500)
    /\ retryable = Some(FALSE)

\* The key each class adds in its to_dict override.
KindKeys(cls) ==
    CASE cls = "ForbiddenError" -> {"required_plan"}
      [] cls = "NotFoundError" -> {"resource"}
      [] cls = "RateLimitError" -> {"retry_after"}
      [] cls = "ValidationError" -> {"validation_errors"}
      [] cls = "TimeoutError" -> {"timeout_seconds"}
      [] OTHER -> {}

FiveKeys == {"error", "message", "status_code", "request_id", "retryable"}

\* C15: to_dict() of an error of the taxonomy has the five keys, error being
\* the class name, retryable what is_retryable() returned for the same error
\* and message, status_code, request_id the error's fields; the only other
\* key is the one of the error's kind.
C15_ToDictFiveKeys ==
    (pc = "serialized" /\ retryable # None) =>
        /\ FiveKeys \subseteq serialized.keys
        /\ serialized.keys \ FiveKeys \subseteq KindKeys(result.exc.cls)
        /\ serialized.val.error = result.exc.cls
        /\ serialized.val.message = result.exc.message
        /\ serialized.val.status_code = result.exc.status_code
        /\ serialized.val.request_id = result.exc.request_id
        /\ Some(serialized.val.retryable) = retryable

\* A TimeoutError serialized with its own key next to the five.
C15_Witness ==
    /\ pc = "serialized"
    /\ retryable = Some(TRUE)
    /\ result.exc.cls = "TimeoutError"
    /\ serialized.keys = FiveKeys \cup {"timeout_seconds"}
    /\ serialized.val.timeout_seconds = Some(30)

AllConnectionErrors == \A i \in 1..Len(outcomes) : outcomes[i] = "ConnectionError"

\* C12: while every attempt of a call ends in the connection-error clause,
\* the sleeps are those of the all-timeout case; when the call has ended it
\* has sent max_retries + 1 requests, slept max_retries times and raised
\* NetworkError whose original_error is the exception of the last attempt.
C12_ConnectionErrorsExhaustRetries ==
    AllConnectionErrors =>
        /\ requests <= cfg.max_retries + 1
        /\ \A k \in 1..Len(sleeps) : sleeps[k] = ExpectedDelay(k - 1, cfg)
        /\ pc = "request" => Len(sleeps) = requests
        /\ pc = "sleep" => Len(sleeps) = requests - 1 /\ requests <= cfg.max_retries
        /\ pc = "done" =>
              /\ requests = cfg.max_retries + 1
              /\ Len(sleeps) = cfg.max_retries
              /\ result.kind = "raise"
              /\ result.exc.cls = "NetworkError"
              /\ result.exc.status_code = None
              /\ caught.cls \in ConnectionErrorClasses
              /\ result.exc.original_error = caught.cls \o ": " \o caught.message
              /\ result.exc.message = "Erro de conexao: " \o caught.message

\* Three connection errors in a row; the error wraps the one of the third
\* attempt.
C12_Witness ==
    /\ pc = "done"
    /\ AllConnectionErrors
    /\ requests = 3
    /\ sleeps = <<2, 4>>
    /\ caught = PyExc("ConnectionError", "e2")
    /\ result.exc.cls = "NetworkError"
    /\ result.exc.original_error = "ConnectionError: e2"

AllTransportFailures ==
    \A i \in 1..Len(outcomes) : outcomes[i] \in {"Timeout", "ConnectionError"}

\* C18: while every attempt of a call ends in the timeout clause or in the
\* connection-error clause, in any order, at most max_retries + 1 requests are
\* sent, the k-th sleep lasts what it lasts in the all-timeout case, the
\* sleeps number one less than the requests once the attempt's clause is left,
\* and the call ends with TimeoutError when the last attempt timed out and with
\* NetworkError when it was a connection error.
C18_SharedCounterAndDelay ==
    AllTransportFailures =>
        /\ requests <= cfg.max_retries + 1
        /\ \A k \in 1..Len(sleeps) : sleeps[k] = ExpectedDelay(k - 1, cfg)
        /\ pc = "request" => Len(sleeps) = requests /\ attempt = requests
        /\ pc \in {"sleep", "done"} => Len(sleeps) = requests - 1
        /\ pc = "done" =>
              /\ result.kind = "raise"
              /\ outcomes[Len(outcomes)] = "Timeout" => result.exc.cls = "TimeoutError"
              /\ outcomes[Len(outcomes)] = "ConnectionError" =>
                    result.exc.cls = "NetworkError"

\* A call that timed out, then failed to connect, then timed out again.
C18_Witness ==
    /\ pc = "done"
    /\ outcomes = <<"Timeout", "ConnectionError", "Timeout">>
    /\ sleeps = <<1, 2>>
    /\ requests = 3
    /\ result.exc.cls = "TimeoutError"

\* The responses the calls have received so far.
Received == {threads[t].resp : t \in {u \in DOMAIN threads : threads[u].pc # "request"}}
                \ {NoResponse}

AllFinished == \A t \in DOMAIN threads : threads[t].pc = "done"

\* C13: with several calls running at once on one client, rate_limit_info is
\* None or what from_headers gives for a response some call received,
\* last_request_id is None or the X-Request-ID of a response some call
\* received, and once every call has finished each field holds the value the
\* call that assigned it last derived from its own response.
C13_LastWriteWins ==
    /\ \/ rate_limit_info = None
       \/ \E r \in Received :
            from_headers(r).raised = PyNone /\ rate_limit_info = from_headers(r).value
    /\ \/ last_request_id = PyNone
       \/ \E r \in Received : last_request_id = RequestIdOf(r)
    /\ AllFinished =>
          /\ rate_limit_info =
                IF writer.rl = 0 THEN None
                ELSE from_headers(threads[writer.rl].resp).value
          /\ last_request_id =
                IF writer.rid = 0 THEN PyNone
                ELSE RequestIdOf(threads[writer.rid].resp)

\* Two calls have finished; the snapshot is the one of the second call's
\* response and the request id the one of the first call's response.
C13_Witness ==
    /\ pc = "concurrent"
    /\ AllFinished
    /\ writer.rl = 2
    /\ writer.rid = 1
    /\ threads[1].resp.XRequestID = "req-1"
    /\ threads[2].resp.XRequestID = Absent
    /\ threads[1].resp.XRateLimitLimit = Absent
    /\ threads[2].resp.XRateLimitLimit = "100"
    /\ last_request_id = "req-1"
    /\ rate_limit_info = Some([limit |-> 100, remaining |-> 42, reset_at |-> 1700000000])

DetailOnlyBody ==
    /\ resp.body.kind = "object"
    /\ resp.body.detail # Absent
    /\ resp.body.message = Absent
    /\ resp.body.errors = Absent
    /\ resp.body.resource = Absent
    /\ resp.body.required_plan = Absent

\* C16: a 404 response whose body is {"detail": X} is classified as a
\* NotFoundError with message X, and to_dict() of that error has error
\* "NotFoundError", message X, status_code 404, retryable false and the key
\* resource with value null.
C16_NotFoundRoundTrip ==
    (resp.status = 404 /\ DetailOnlyBody) =>
        /\ pc \in {"classified", "serialized"} =>
              /\ result.kind = "raise"
              /\ result.exc.cls = "NotFoundError"
              /\ result.exc.message = resp.body.detail
        /\ pc = "serialized" =>
              /\ serialized.keys = FiveKeys \cup {"resource"}
              /\ serialized.val.error = "NotFoundError"
              /\ serialized.val.message = resp.body.detail
              /\ serialized.val.status_code = Some(404)
              /\ serialized.val.retryable = FALSE
              /\ serialized.val.resource = PyNone

\* The error of a 404 response with body {"detail": "D"}, serialized.
C16_Witness ==
    /\ pc = "serialized"
    /\ resp.status = 404
    /\ DetailOnlyBody
    /\ resp.body.detail = "D"
    /\ serialized.val.message = "D"
    /\ serialized.val.resource = PyNone
    /\ "resource" \in serialized.keys

\* The error of client.py:140.
FallbackError == NetworkError("Maximo de tentativas excedido", PyNone)

\* C19: for every RetryConfig that can be constructed, a call that has ended
\* sent at least one request and did not end with the post-loop fallback error.
C19_FallbackUnreachable ==
    (pc = "done" /\ calls > 0) =>
        /\ requests >= 1
        /\ result # Raise(FallbackError)

\* C20: for every RetryConfig that can be constructed, each sleep of a call
\* lasts at most max_delay and no sleep is shorter than the one before it.
C20_SleepsCappedAndMonotone ==
    \A k \in 1..Len(sleeps) :
        /\ sleeps[k] <= cfg.max_delay
        /\ k > 1 => sleeps[k - 1] <= sleeps[k]

\* Both fields are as __init__ left them or as the headers of r give them.
DescribeOneResponse(r) ==
    /\ from_headers(r).raised = PyNone
    /\ rate_limit_info = from_headers(r).value
    /\ last_request_id = RequestIdOf(r)

\* C21 (as claimed): whenever no call is in progress, also after concurrent
\* calls, the two fields are both untouched or both derived from the headers
\* of one response that a call received.
C21_ClaimedSameResponse ==
    AllFinished =>
        \/ rate_limit_info = None /\ last_request_id = PyNone
        \/ \E r \in Received : DescribeOneResponse(r)

\* C21 (amended): whenever no call is in progress, the two fields are both
\* untouched when no call assigned them, and both derived from the headers of
\* one call's response when the call that assigned rate_limit_info last is
\* the call that assigned last_request_id last.
C21_SameResponseOfSameWriter ==
    AllFinished =>
        /\ (writer.rl = 0) = (writer.rid = 0)
        /\ writer.rl = 0 => rate_limit_info = None /\ last_request_id = PyNone
        /\ (writer.rl # 0 /\ writer.rl = writer.rid) =>
              DescribeOneResponse(threads[writer.rl].resp)

\* Two calls have finished and the second assigned both fields last: they
\* describe its response, not the first call's.
C21_Witness ==
    /\ pc = "concurrent"
    /\ AllFinished
    /\ writer = [rl |-> 2, rid |-> 2]
    /\ threads[1].resp.XRequestID = "req-1"
    /\ threads[1].resp.XRateLimitLimit = "100"
    /\ threads[1].result.kind # "none"
    /\ threads[2].resp.XRequestID = Absent
    /\ threads[2].resp.XRateLimitLimit = Absent
    /\ last_request_id = PyNone
    /\ rate_limit_info = Some([limit |-> 0, remaining |-> 0, reset_at |-> 0])

\* C22: an attempt that ends in the last except clause (neither a timeout,
\* nor a connection error, nor an error of the taxonomy) is the last attempt
\* of its call, whatever attempts remain; the call raises NetworkError
\* wrapping that exception, and when the attempt had received a response the
\* two fields hold that response's values.
C22_UnexpectedErrorNotRetried ==
    \A i \in 1..Len(outcomes) :
        outcomes[i] = "Exception" =>
            /\ i = Len(outcomes)
            /\ pc = "done"
            /\ result.kind = "raise"
            /\ result.exc.cls = "NetworkError"
            /\ result.exc.original_error = caught.cls \o ": " \o caught.message
            /\ result.exc.message = "Erro inesperado: " \o caught.message
            /\ resp # NoResponse => DescribeOneResponse(resp)

\* C23: when every attempt and every sleep that starts also completes, a call
\* that is running ends by returning or raising, and no call sends more than
\* max_retries + 1 requests.
C23_CallTerminates ==
    /\ [](requests <= cfg.max_retries + 1)
    /\ (pc \in {"request", "sleep"}) ~> (pc = "done")

\* A call that ended on its last permitted attempt, after two retries.
C23_Witness ==
    /\ pc = "done"
    /\ cfg.max_retries = 2
    /\ requests = 3
    /\ outcomes = <<"ConnectionError", "Timeout", "response:return">>
    /\ result.kind = "return"

====
